---- MODULE Spec2Model ----
(***************************************************************************)
(* State-machine model of the two browser scripts of the hackathon         *)
(* monitoring chatbot:                                                     *)
(*   - the chat page script (src/unnamed/part_000, lines 167-299)          *)
(*   - the dashboard script (src/Slack_ingestion/static/js/dashboard.js)   *)
(* JavaScript runs each handler to completion; an await is the only place  *)
(* where a handler gives up control.  Every action below is therefore one  *)
(* run-to-completion piece of a handler.                                   *)
(*                                                                         *)
(* A string is modelled as a sequence of segments: the segment " " is one  *)
(* white-space character, every other segment is a non-blank chunk.        *)
(***************************************************************************)
EXTENDS Integers, Sequences, FiniteSets, TLC

(***************************************************************************)
(* Bounds                                                                  *)
(***************************************************************************)
\* number of chat submissions accepted in one run
MaxSubmits == 2

\* number of refreshAllData calls and of setInterval calls in one run
MaxCycles == 2
MaxTimers == 2

\* the same, for the runs that look for a long trace
DeepCycles == 3
DeepTimers == 2

\* number of refreshAllData calls in one run of a page left open
OpenCycles == 2

\* number of refreshAllData calls in one run that draws the responses from
\* every outcome and payload
RenderCycles == 2

(***************************************************************************)
(* Chat page: constants of the script                                      *)
(***************************************************************************)
\* the quick-reply strings (part_000:252-257)
predefinedQueries ==
  << <<"What problems are teams facing right now?">>,
     <<"What are the most asked questions?">>,
     <<"What topics are trending in the chat?">>,
     <<"Summarize the current hackathon activity">> >>

\* the fixed message returned by getAIResponse's catch block (part_000:213)
Apology ==
  <<"Sorry, I'm having trouble connecting to the AI service right now. Please try again later.">>

\* values the user can type into the text input
InputValues == { <<>>, <<" ", " ">>, <<" ", "hi", " ">> }

\* what a POST /api/query can come back with:
\*   network  - fetch() rejects
\*   http     - response.ok is false
\*   parse    - response.json() rejects (malformed body)
\*   null     - the body is the JSON value null
\*   noreply  - the body is an object without a reply field
\*   ok       - the body is {reply: ...}
QueryOutcomes == {"network", "http", "parse", "null", "noreply", "ok"}
QueryFailures == {"network", "http", "parse"}

\* the message of the Error thrown or rejected for each failing outcome
ErrorMessage(outcome) ==
  CASE outcome = "network" -> <<"Failed to fetch">>
    [] outcome = "http"    -> <<"HTTP error! status: 500">>
    [] outcome = "parse"   -> <<"Unexpected token">>
    [] outcome = "null"    -> <<"Cannot read properties of null">>
    [] OTHER               -> <<>>

VARIABLES
  chatWindow,     \* children of #chatWindow, in document order
  inputValue,     \* userInput.value
  inputDisabled,  \* userInput.disabled
  sendDisabled,   \* sendBtn.disabled
  queries,        \* POST /api/query requests in flight
  nextSub,        \* number of handleSend invocations accepted so far
  lastAct         \* the handler that ran last (history variable)

chatVars == <<chatWindow, inputValue, inputDisabled, sendDisabled, queries,
              nextSub, lastAct>>

VARIABLES
  page,                 \* "new", "live" once DOMContentLoaded is handled,
                        \* "unloaded" once beforeunload is handled
  hidden,               \* document.hidden
  hiddenHandled,        \* the last visibilitychange handled was one to hidden
  todo,                 \* what is left of the handler that is running
  timers,               \* the interval timers that are armed: id and period
  autoRefreshInterval,  \* the module-level handle (0: undefined)
  nextTimer,            \* number of setInterval calls so far
  btnDisabled,          \* refreshBtn.disabled
  btnLabel,             \* refreshBtn.innerHTML
  lastUpdate,           \* number of the cycle that wrote #lastUpdate last
  cycles,               \* the refreshAllData invocations, in call order
  timeouts,             \* number of pending 2000 ms reset timeouts
  dom,                  \* text of the dashboard's regions
  lastEv                \* the dashboard handler that ran last (history)

dashVars == <<page, hidden, hiddenHandled, todo, timers,
              autoRefreshInterval, nextTimer, btnDisabled, btnLabel,
              lastUpdate, cycles, timeouts, dom, lastEv>>

vars == <<chatVars, dashVars>>

(***************************************************************************)
(* Chat page: helpers                                                      *)
(***************************************************************************)
RECURSIVE TrimStart(_)
TrimStart(s) ==
  IF s # <<>> /\ Head(s) = " " THEN TrimStart(Tail(s)) ELSE s

RECURSIVE TrimEnd(_)
TrimEnd(s) ==
  IF s # <<>> /\ s[Len(s)] = " " THEN TrimEnd(SubSeq(s, 1, Len(s) - 1)) ELSE s

\* String.prototype.trim
Trim(s) == TrimEnd(TrimStart(s))

\* showLoading: append the "Thinking..." element with id loading-indicator.
\* sub tags the element with the handleSend invocation that created it.
showLoading(win, sub) ==
  Append(win, [cls |-> "loading", id |-> "loading-indicator",
               text |-> <<"Thinking...">>, sub |-> sub])

\* document.getElementById: index of the first element in tree order
FirstWithId(win, id) ==
  IF \E i \in 1..Len(win) : win[i].id = id
    THEN CHOOSE i \in 1..Len(win) :
           win[i].id = id /\ \A j \in 1..(i - 1) : win[j].id # id
    ELSE 0

RemoveAt(win, i) == SubSeq(win, 1, i - 1) \o SubSeq(win, i + 1, Len(win))

\* hideLoading removing the first child of the chat window instead
hideLoading_FirstChild(win) ==
  IF win # <<>> THEN Tail(win) ELSE win

\* hideLoading removing every element with the id loading-indicator
hideLoading_RemoveAll(win) ==
  SelectSeq(win, LAMBDA e : e.id # "loading-indicator")

hideLoading(win) ==
  LET i == FirstWithId(win, "loading-indicator")
  IN  IF i # 0 THEN RemoveAt(win, i) ELSE win

addMessage(win, text, sender, sub) ==
  Append(win, [cls |-> sender, id |-> "", text |-> text, sub |-> sub])

\* getAIResponse without its try/catch around response.json(): a malformed
\* body escapes to the caller
getAIResponse_ParseEscapes(outcome, reply) ==
  CASE outcome = "ok"      -> [threw |-> FALSE, value |-> reply]
    [] outcome = "noreply" -> [threw |-> FALSE, value |-> <<"undefined">>]
    [] outcome = "parse"   -> [threw |-> TRUE, value |-> ErrorMessage(outcome)]
    [] OTHER               -> [threw |-> FALSE, value |-> Apology]

\* getAIResponse after its fetch has settled with outcome: what it returns,
\* or the error it lets escape
getAIResponse(outcome, reply) ==
  CASE outcome = "ok"      -> [threw |-> FALSE, value |-> reply]
    [] outcome = "noreply" -> [threw |-> FALSE, value |-> <<"undefined">>]
    [] OTHER               -> [threw |-> FALSE, value |-> Apology]

Replies == { <<"All good.">> }

(***************************************************************************)
(* Chat page: state after the DOMContentLoaded handler has run             *)
(***************************************************************************)
ChatInit ==
  /\ chatWindow = <<>>
  /\ inputValue = <<>>
  /\ inputDisabled = FALSE
  /\ sendDisabled = FALSE
  /\ queries = {}
  /\ nextSub = 0
  /\ lastAct = [op |-> "load", sub |-> 0, outcome |-> "none"]

\* the user edits the text input (a disabled input cannot be edited)
TypeInput ==
  /\ ~inputDisabled
  /\ \E v \in InputValues : inputValue' = v
  /\ lastAct' = [op |-> "type", sub |-> 0, outcome |-> "none"]
  /\ UNCHANGED <<chatWindow, inputDisabled, sendDisabled, queries, nextSub>>
  /\ UNCHANGED dashVars

\* handleSend testing the raw input value instead of the trimmed one
handleSend_NoTrim(value, op) ==
  IF value = <<>>
    THEN /\ inputValue' = value
         /\ lastAct' = [op |-> op, sub |-> 0, outcome |-> "none"]
         /\ UNCHANGED <<chatWindow, inputDisabled, sendDisabled, queries,
                        nextSub>>
    ELSE /\ nextSub < MaxSubmits
         /\ nextSub' = nextSub + 1
         /\ chatWindow' =
              showLoading(addMessage(chatWindow, Trim(value), "user", nextSub'),
                          nextSub')
         /\ inputValue' = <<>>
         /\ inputDisabled' = TRUE
         /\ sendDisabled' = TRUE
         /\ queries' = queries \cup {[sub |-> nextSub', message |-> Trim(value)]}
         /\ lastAct' = [op |-> op, sub |-> nextSub', outcome |-> "none"]

\* handleSend up to its await, run on the input value it finds
handleSend(value, op) ==
  LET text == Trim(value)
  IN  IF text = <<>>
        THEN /\ inputValue' = value
             /\ lastAct' = [op |-> op, sub |-> 0, outcome |-> "none"]
             /\ UNCHANGED <<chatWindow, inputDisabled, sendDisabled, queries,
                            nextSub>>
        ELSE /\ nextSub < MaxSubmits
             /\ nextSub' = nextSub + 1
             /\ chatWindow' =
                  showLoading(addMessage(chatWindow, text, "user", nextSub'),
                              nextSub')
             /\ inputValue' = <<>>
             /\ inputDisabled' = TRUE
             /\ sendDisabled' = TRUE
             /\ queries' = queries \cup {[sub |-> nextSub', message |-> text]}
             /\ lastAct' = [op |-> op, sub |-> nextSub', outcome |-> "none"]

\* click on the send button (a disabled button dispatches no click)
ClickSend ==
  /\ ~sendDisabled
  /\ handleSend(inputValue, "click")
  /\ UNCHANGED dashVars

\* Enter pressed in the text input (a disabled input takes no key events)
PressEnter ==
  /\ ~inputDisabled
  /\ handleSend(inputValue, "enter")
  /\ UNCHANGED dashVars

\* click on a quick-reply button: fill the input, then handleSend
ClickQuery ==
  /\ \E i \in 1..Len(predefinedQueries) :
       handleSend(predefinedQueries[i], "query")
  /\ UNCHANGED dashVars

\* the fetch of one submission settles: the rest of handleSend runs
QuerySettle ==
  \E q \in queries, outcome \in QueryOutcomes, reply \in Replies :
    LET r == getAIResponse(outcome, reply)
    IN  /\ queries' = queries \ {q}
        /\ chatWindow' =
             IF r.threw
               THEN addMessage(hideLoading(chatWindow),
                               <<"Error: ">> \o r.value, "bot", q.sub)
               ELSE addMessage(hideLoading(chatWindow), r.value, "bot", q.sub)
        /\ inputDisabled' = FALSE
        /\ sendDisabled' = FALSE
        /\ lastAct' = [op |-> "settle", sub |-> q.sub, outcome |-> outcome]
        /\ UNCHANGED <<inputValue, nextSub>>
        /\ UNCHANGED dashVars

ChatNext ==
  \/ TypeInput
  \/ ClickSend
  \/ PressEnter
  \/ ClickQuery
  \/ QuerySettle

(***************************************************************************)
(* Dashboard: constants of the script                                      *)
(***************************************************************************)
\* refreshBtn.innerHTML values (dashboard.js:146,157,159,165), icons left out
LabelLoading == "Refreshing..."
LabelSuccess == "Refreshed!"
LabelError   == "Error"
LabelIdle    == "Refresh Data"

\* the period of the auto-refresh interval, in seconds (dashboard.js:175)
RefreshPeriod == 30

\* placeholders written by the catch blocks and the empty-list branch
ErrorText == <<"Error">>
ErrorLoadingInsights == <<"Error loading insights", ".">>
ErrorLoadingMessages ==
  <<"<p class=\"text-danger\">", "Error loading messages", ".", "</p>">>
NoRecentMessages ==
  <<"<p class=\"text-muted\">", "No recent messages available", ".", "</p>">>
NoProblems == <<"No problems detected recently", ".">>
NoQuestions == <<"No questions found recently", ".">>
NoTrending == <<"No trending topics identified", ".">>

\* what the page template shows in a region before the script writes to it
TemplateText == <<"(template)">>

\* what a GET can come back with (as for the query, without noreply)
FetchOutcomes == {"network", "http", "parse", "null", "ok"}
FetchFailures == {"network", "http", "parse"}

Kinds == {"stats", "insights", "messages"}

(***************************************************************************)
(* Dashboard: responses the endpoints are given to answer with.  A stats   *)
(* field is <<n>>, or <<>> when the field is absent or null.               *)
(***************************************************************************)
StatsPayloads ==
  << [total_messages |-> <<5>>, unique_users |-> <<2>>,
      questions_count |-> <<1>>, problems_count |-> <<3>>],
     [total_messages |-> <<0>>, unique_users |-> <<>>,
      questions_count |-> <<>>, problems_count |-> <<4>>] >>

InsightsPayloads ==
  << [problems |-> <<"1", ".", " ", "*", "*", "Auth", "*", "*", " ", "2", ".",
                     " ", "Deploy">>,
      questions |-> <<"&bull;", " ", "How to deploy", "?">>,
      trending |-> <<"*", "*", "AI", ":", "*", "*", " ", "agents">>],
     [problems |-> <<>>,
      questions |-> <<"*", "*", "open">>,
      trending |-> <<>>],
     [problems |-> <<"*", "*", "Deploy", "\n", "fails", "*", "*", " ", "1", ".",
                     " ", "3", ".", "5">>,
      questions |-> <<"&bull;", " ", "a", " ", "&bull;", " ", "*", "*", "b",
                      "*", "*", "*", "*", "c", "*", "*">>,
      trending |-> <<"*", "*", "A", ":", "*", "*", " ", "x", " ", "*", "*",
                     "B", ":", "*", "*", " ", "*", "*", "C", "*", "*">>] >>

MessagesPayloads ==
  << [messages |-> <<>>],
     [messages |-> << [user |-> <<"U", "1", "2", "3", "A", "B">>,
                       text |-> <<"h", "e", "l", "p", " ", "<", "@", "U", "1", "2", "3", "A", "B", "C", "D", ">", " ", "h", "o", "w", "?">>,
                       ts |-> <<"1700000000.5">>] >>],
     [messages |-> << [user |-> <<"U", "1", "2", "3", "A", "B">>,
                       text |-> <<"h", "e", "l", "p", " ", "m", "e">>,
                       ts |-> <<"1700000000.5">>] >>],
     [messages |-> << [user |-> <<"U", "1", "2", "3", "A", "B">>,
                       text |-> <<"<", "@", "U", "1", "H", "E", "L", "P", ">", " ", "h", "i">>,
                       ts |-> <<"1700000000.5">>] >>],
     [messages |-> << [user |-> <<"U", "1", "2", "3", "A", "B">>,
                       text |-> <<"<", "@", "U", "1", "A", "B", "C", "D", ">", " ", "<", "@", "W", "9", "A", "B", "C", "D", ">">>,
                       ts |-> <<"1700000000.5">>] >>],
     [messages |-> << [user |-> <<"U", "1", "2", "3", "A", "B">>,
                       text |-> <<"o", "k", " ", "n", "o", "w">>,
                       ts |-> <<"1700000000.5">>] >>] >>

PayloadCount(kind) ==
  CASE kind = "stats"    -> Len(StatsPayloads)
    [] kind = "insights" -> Len(InsightsPayloads)
    [] kind = "messages" -> Len(MessagesPayloads)

(***************************************************************************)
(* Dashboard: pure helpers                                                 *)
(***************************************************************************)
Digits == {"0", "1", "2", "3", "4", "5", "6", "7", "8", "9"}

Min(S) == CHOOSE x \in S : \A y \in S : x <= y

\* textContent = n
Num(n) == <<ToString(n)>>

\* field || 0
OrZero(f) == IF f = <<>> \/ f = <<0>> THEN 0 ELSE f[1]

\* text || fallback
OrDefault(text, fallback) == IF text = <<>> THEN fallback ELSE text

\* positions j >= k where a closing ** starts, no line break since k
ClosingBold(s, k) ==
  {j \in k..(Len(s) - 1) :
     /\ s[j] = "*" /\ s[j + 1] = "*"
     /\ \A m \in k..(j - 1) : s[m] # "\n"}

\* text.replace(/\*\*(.*?)\*\*/g, '<strong>$1</strong>')
RECURSIVE emphasize(_)
emphasize(s) ==
  IF s = <<>> THEN <<>>
  ELSE IF Len(s) >= 2 /\ s[1] = "*" /\ s[2] = "*" /\ ClosingBold(s, 3) # {}
    THEN LET j == Min(ClosingBold(s, 3))
         IN  <<"<strong>">> \o SubSeq(s, 3, j - 1) \o <<"</strong>">>
               \o emphasize(SubSeq(s, j + 2, Len(s)))
    ELSE <<Head(s)>> \o emphasize(Tail(s))

\* (text.match(/\d+\./g) || []).length
countEnumerations(s) ==
  Cardinality({i \in 2..Len(s) : s[i] = "." /\ s[i - 1] \in Digits})

\* (text.match(/&bull;/g) || []).length
countBullets(s) == Cardinality({i \in 1..Len(s) : s[i] = "&bull;"})

\* positions j >= k where :</strong> starts, no line break since k
ClosingHeader(s, k) ==
  {j \in k..(Len(s) - 1) :
     /\ s[j] = ":" /\ s[j + 1] = "</strong>"
     /\ \A m \in k..(j - 1) : s[m] # "\n"}

\* (text.match(/<strong>.*?:<\/strong>/g) || []).length
RECURSIVE countHeaders(_)
countHeaders(s) ==
  IF s = <<>> THEN 0
  ELSE IF s[1] = "<strong>" /\ ClosingHeader(s, 2) # {}
    THEN 1 + countHeaders(SubSeq(s, Min(ClosingHeader(s, 2)) + 2, Len(s)))
    ELSE countHeaders(Tail(s))

\* slice(-4)
Last4(s) == IF Len(s) <= 4 THEN s ELSE SubSeq(s, Len(s) - 3, Len(s))

\* A message text is a sequence of characters.  The markup the formatter
\* inserts is kept as one element per tag; a tag begins with "<" and ends
\* with ">", so it is no word character at either end, and no tag holds a
\* keyword or a question mark.
UpperLetters ==
  {"A", "B", "C", "D", "E", "F", "G", "H", "I", "J", "K", "L", "M", "N", "O",
   "P", "Q", "R", "S", "T", "U", "V", "W", "X", "Y", "Z"}
LowerLetters ==
  {"a", "b", "c", "d", "e", "f", "g", "h", "i", "j", "k", "l", "m", "n", "o",
   "p", "q", "r", "s", "t", "u", "v", "w", "x", "y", "z"}

\* \w
WordChars == UpperLetters \cup LowerLetters \cup Digits \cup {"_"}

\* [A-Z0-9]
IdChars == UpperLetters \cup Digits

\* the case folding of the i flag
Lower(c) ==
  CASE c = "A" -> "a"
    [] c = "B" -> "b"
    [] c = "C" -> "c"
    [] c = "D" -> "d"
    [] c = "E" -> "e"
    [] c = "F" -> "f"
    [] c = "G" -> "g"
    [] c = "H" -> "h"
    [] c = "I" -> "i"
    [] c = "J" -> "j"
    [] c = "K" -> "k"
    [] c = "L" -> "l"
    [] c = "M" -> "m"
    [] c = "N" -> "n"
    [] c = "O" -> "o"
    [] c = "P" -> "p"
    [] c = "Q" -> "q"
    [] c = "R" -> "r"
    [] c = "S" -> "s"
    [] c = "T" -> "t"
    [] c = "U" -> "u"
    [] c = "V" -> "v"
    [] c = "W" -> "w"
    [] c = "X" -> "x"
    [] c = "Y" -> "y"
    [] c = "Z" -> "z"
    [] OTHER -> c

\* String.prototype.toUpperCase on one character
Upper(c) ==
  CASE c = "a" -> "A"
    [] c = "b" -> "B"
    [] c = "c" -> "C"
    [] c = "d" -> "D"
    [] c = "e" -> "E"
    [] c = "f" -> "F"
    [] c = "g" -> "G"
    [] c = "h" -> "H"
    [] c = "i" -> "I"
    [] c = "j" -> "J"
    [] c = "k" -> "K"
    [] c = "l" -> "L"
    [] c = "m" -> "M"
    [] c = "n" -> "N"
    [] c = "o" -> "O"
    [] c = "p" -> "P"
    [] c = "q" -> "Q"
    [] c = "r" -> "R"
    [] c = "s" -> "S"
    [] c = "t" -> "T"
    [] c = "u" -> "U"
    [] c = "v" -> "V"
    [] c = "w" -> "W"
    [] c = "x" -> "X"
    [] c = "y" -> "Y"
    [] c = "z" -> "Z"
    [] OTHER -> c

BadgeOpen == "<span class=\"badge bg-primary\">"
DangerOpen == "<span class=\"text-danger fw-bold\">"
InfoOpen == "<span class=\"text-info fw-bold\">"
SpanClose == "</span>"

\* dashboard.js:104
problemKeywords ==
  << <<"p", "r", "o", "b", "l", "e", "m">>,
     <<"i", "s", "s", "u", "e">>,
     <<"e", "r", "r", "o", "r">>,
     <<"b", "u", "g">>,
     <<"s", "t", "u", "c", "k">>,
     <<"h", "e", "l", "p">>,
     <<"b", "r", "o", "k", "e", "n">>,
     <<"f", "a", "i", "l", "e", "d">>,
     <<"t", "r", "o", "u", "b", "l", "e">> >>

\* dashboard.js:111
questionKeywords ==
  << <<"h", "o", "w">>,
     <<"w", "h", "a", "t">>,
     <<"w", "h", "e", "r", "e">>,
     <<"w", "h", "e", "n">>,
     <<"w", "h", "y">>,
     <<"c", "a", "n">>,
     <<"c", "o", "u", "l", "d">>,
     <<"w", "o", "u", "l", "d">>,
     <<"s", "h", "o", "u", "l", "d">> >>

\* the end of the identifier that starts at i: the last of the run of
\* [A-Z0-9] characters
RECURSIVE IdEnd(_, _)
IdEnd(s, i) ==
  IF i + 1 <= Len(s) /\ s[i + 1] \in IdChars THEN IdEnd(s, i + 1) ELSE i

\* /<@([A-Z0-9]+)>/ matches at i
MentionAt(s, i) ==
  /\ i + 3 <= Len(s)
  /\ s[i] = "<" /\ s[i + 1] = "@" /\ s[i + 2] \in IdChars
  /\ IdEnd(s, i + 2) + 1 <= Len(s)
  /\ s[IdEnd(s, i + 2) + 1] = ">"

\* text.replace(/<@([A-Z0-9]+)>/g, ...) from position i on
RECURSIVE MaskFrom(_, _)
MaskFrom(s, i) ==
  IF i > Len(s) THEN <<>>
  ELSE IF MentionAt(s, i)
    THEN LET e == IdEnd(s, i + 2)
         IN  <<BadgeOpen, "@", "U", "s", "e", "r", " ">>
               \o Last4(SubSeq(s, i + 2, e)) \o <<SpanClose>>
               \o MaskFrom(s, e + 2)
    ELSE <<s[i]>> \o MaskFrom(s, i + 1)

\* the replacement without the g flag: the first token only
maskMentions_FirstOnly(s) ==
  LET tokens == {i \in 1..Len(s) : MentionAt(s, i)}
  IN  IF tokens = {} THEN s
      ELSE LET i == Min(tokens)
               e == IdEnd(s, i + 2)
           IN  SubSeq(s, 1, i - 1)
                 \o <<BadgeOpen, "@", "U", "s", "e", "r", " ">>
                 \o Last4(SubSeq(s, i + 2, e)) \o <<SpanClose>>
                 \o SubSeq(s, e + 2, Len(s))

maskMentions(s) == MaskFrom(s, 1)

IsWordAt(s, i) == i >= 1 /\ i <= Len(s) /\ s[i] \in WordChars

\* /\b(keyword)\b/i matches at i
KeywordAt(s, i, keyword) ==
  /\ i + Len(keyword) - 1 <= Len(s)
  /\ \A k \in 1..Len(keyword) : Lower(s[i + k - 1]) = keyword[k]
  /\ ~IsWordAt(s, i - 1)
  /\ ~IsWordAt(s, i + Len(keyword))

\* text.replace(new RegExp(`\\b(${keyword})\\b`, 'gi'), open + '$1</span>')
\* from position i on
RECURSIVE HighlightFrom(_, _, _, _)
HighlightFrom(s, i, keyword, open) ==
  IF i > Len(s) THEN <<>>
  ELSE IF KeywordAt(s, i, keyword)
    THEN <<open>> \o SubSeq(s, i, i + Len(keyword) - 1) \o <<SpanClose>>
           \o HighlightFrom(s, i + Len(keyword), keyword, open)
    ELSE <<s[i]>> \o HighlightFrom(s, i + 1, keyword, open)

\* keywords.forEach(keyword => text = text.replace(...))
RECURSIVE highlightKeywords(_, _, _)
highlightKeywords(s, keywords, open) ==
  IF keywords = <<>> THEN s
  ELSE highlightKeywords(HighlightFrom(s, 1, Head(keywords), open),
                         Tail(keywords), open)

\* text.replace(/\?/g, '<span class="text-info fw-bold">?</span>')
RECURSIVE highlightQuestionMarks(_)
highlightQuestionMarks(s) ==
  IF s = <<>> THEN <<>>
  ELSE IF Head(s) = "?"
    THEN <<InfoOpen, "?", SpanClose>> \o highlightQuestionMarks(Tail(s))
    ELSE <<Head(s)>> \o highlightQuestionMarks(Tail(s))

\* text.charAt(0).toUpperCase() + text.slice(1)
capitalize(s) == IF s = <<>> THEN s ELSE <<Upper(Head(s))>> \o Tail(s)

\* the formatting of one message text (dashboard.js:96-123)
FormatText(text) ==
  capitalize(
    highlightQuestionMarks(
      highlightKeywords(
        highlightKeywords(maskMentions(text), problemKeywords, DangerOpen),
        questionKeywords, InfoOpen)))

\* one element of messages.map(...) (dashboard.js:93-131)
FormatMessage(msg) ==
  <<"<div class=\"border-bottom pb-2 mb-2\">",
    "<small class=\"text-muted\">", "[">> \o <<"time of ">> \o msg.ts
    \o <<"]", " ", "<strong>", "User ">>
    \o Last4(OrDefault(msg.user, <<"Unknown">>)) \o <<":", "</strong>",
    "</small>", "<p class=\"mb-1\">">> \o FormatText(msg.text)
    \o <<"</p>", "</div>">>

RECURSIVE JoinMessages(_)
JoinMessages(msgs) ==
  IF msgs = <<>> THEN <<>>
  ELSE FormatMessage(Head(msgs)) \o JoinMessages(Tail(msgs))

(***************************************************************************)
(* Dashboard: the three fetch functions, run on the outcome of their       *)
(* request.  Each gives the regions as it leaves them and says whether the *)
(* promise it returned is rejected.  The two awaits of a fetch function    *)
(* (fetch, response.json) are taken as one step: nothing is read or        *)
(* written between them.                                                   *)
(***************************************************************************)
\* what each payload is rendered to, worked out once
StatsView ==
  [pay \in 1..Len(StatsPayloads) |->
     LET stats == StatsPayloads[pay]
     IN  [totalMessages |-> Num(OrZero(stats.total_messages)),
          uniqueUsers |-> Num(OrZero(stats.unique_users)),
          questionsCount |-> Num(OrZero(stats.questions_count)),
          problemsCount |-> Num(OrZero(stats.problems_count))]]

InsightsView ==
  [pay \in 1..Len(InsightsPayloads) |->
     LET insights == InsightsPayloads[pay]
         problemsText == emphasize(OrDefault(insights.problems, NoProblems))
         questionsText ==
           emphasize(OrDefault(insights.questions, NoQuestions))
         trendingText == emphasize(OrDefault(insights.trending, NoTrending))
     IN  [problemsInsight |-> problemsText,
          questionsInsight |-> questionsText,
          trendingInsight |-> trendingText,
          problemsCount |-> Num(countEnumerations(problemsText)),
          questionsCount |-> Num(countBullets(questionsText)),
          trendsCount |-> Num(countHeaders(trendingText))]]

MessagesView ==
  [pay \in 1..Len(MessagesPayloads) |->
     LET messages == MessagesPayloads[pay].messages
     IN  IF Len(messages) = 0 THEN NoRecentMessages
         ELSE JoinMessages(messages)]

fetchStats(d, outcome, pay) ==
  IF outcome = "ok"
    THEN [dom |-> [d EXCEPT
            !.totalMessages = StatsView[pay].totalMessages,
            !.uniqueUsers = StatsView[pay].uniqueUsers,
            !.questionsCount = StatsView[pay].questionsCount,
            !.problemsCount = StatsView[pay].problemsCount],
          threw |-> FALSE]
    ELSE [dom |-> [d EXCEPT !.totalMessages = ErrorText,
                            !.uniqueUsers = ErrorText,
                            !.questionsCount = ErrorText,
                            !.problemsCount = ErrorText],
          threw |-> FALSE]

\* fetchInsights without its catch block: a failure rejects its promise
fetchInsights_NoCatch(d, outcome, pay) ==
  IF outcome = "ok"
    THEN [dom |-> [d EXCEPT
            !.problemsInsight = InsightsView[pay].problemsInsight,
            !.questionsInsight = InsightsView[pay].questionsInsight,
            !.trendingInsight = InsightsView[pay].trendingInsight,
            !.problemsCount = InsightsView[pay].problemsCount,
            !.questionsCount = InsightsView[pay].questionsCount,
            !.trendsCount = InsightsView[pay].trendsCount],
          threw |-> FALSE]
    ELSE [dom |-> d, threw |-> TRUE]

\* fetchInsights writing a badge only while it still holds the template's
\* text
fetchInsights_KeepBadges(d, outcome, pay) ==
  LET keep(badge) ==
        IF d[badge] = TemplateText THEN InsightsView[pay][badge] ELSE d[badge]
  IN  IF outcome = "ok"
        THEN [dom |-> [d EXCEPT
                !.problemsInsight = InsightsView[pay].problemsInsight,
                !.questionsInsight = InsightsView[pay].questionsInsight,
                !.trendingInsight = InsightsView[pay].trendingInsight,
                !.problemsCount = keep("problemsCount"),
                !.questionsCount = keep("questionsCount"),
                !.trendsCount = keep("trendsCount")],
              threw |-> FALSE]
        ELSE [dom |-> [d EXCEPT !.problemsInsight = ErrorLoadingInsights,
                                !.questionsInsight = ErrorLoadingInsights,
                                !.trendingInsight = ErrorLoadingInsights],
              threw |-> FALSE]

\* fetchInsights with a catch block that also sets the three badges to 0
fetchInsights_ResetBadges(d, outcome, pay) ==
  IF outcome = "ok"
    THEN [dom |-> [d EXCEPT
            !.problemsInsight = InsightsView[pay].problemsInsight,
            !.questionsInsight = InsightsView[pay].questionsInsight,
            !.trendingInsight = InsightsView[pay].trendingInsight,
            !.problemsCount = InsightsView[pay].problemsCount,
            !.questionsCount = InsightsView[pay].questionsCount,
            !.trendsCount = InsightsView[pay].trendsCount],
          threw |-> FALSE]
    ELSE [dom |-> [d EXCEPT !.problemsInsight = ErrorLoadingInsights,
                            !.questionsInsight = ErrorLoadingInsights,
                            !.trendingInsight = ErrorLoadingInsights,
                            !.problemsCount = Num(0),
                            !.questionsCount = Num(0),
                            !.trendsCount = Num(0)],
          threw |-> FALSE]

fetchInsights(d, outcome, pay) ==
  IF outcome = "ok"
    THEN [dom |-> [d EXCEPT
            !.problemsInsight = InsightsView[pay].problemsInsight,
            !.questionsInsight = InsightsView[pay].questionsInsight,
            !.trendingInsight = InsightsView[pay].trendingInsight,
            !.problemsCount = InsightsView[pay].problemsCount,
            !.questionsCount = InsightsView[pay].questionsCount,
            !.trendsCount = InsightsView[pay].trendsCount],
          threw |-> FALSE]
    ELSE [dom |-> [d EXCEPT !.problemsInsight = ErrorLoadingInsights,
                            !.questionsInsight = ErrorLoadingInsights,
                            !.trendingInsight = ErrorLoadingInsights],
          threw |-> FALSE]

\* fetchRecentMessages without its catch block: a failure rejects its
\* promise
fetchRecentMessages_NoCatch(d, outcome, pay) ==
  IF outcome = "ok"
    THEN [dom |-> [d EXCEPT !.recentMessages = MessagesView[pay]],
          threw |-> FALSE]
    ELSE [dom |-> d, threw |-> TRUE]

fetchRecentMessages(d, outcome, pay) ==
  IF outcome = "ok"
    THEN [dom |-> [d EXCEPT !.recentMessages = MessagesView[pay]],
          threw |-> FALSE]
    ELSE [dom |-> [d EXCEPT !.recentMessages = ErrorLoadingMessages],
          threw |-> FALSE]

RunFetch(kind, d, outcome, pay) ==
  CASE kind = "stats"    -> fetchStats(d, outcome, pay)
    [] kind = "insights" -> fetchInsights(d, outcome, pay)
    [] kind = "messages" -> fetchRecentMessages(d, outcome, pay)

(***************************************************************************)
(* Dashboard: scheduling                                                   *)
(***************************************************************************)
\* the synchronous part of refreshAllData, in the order of its statements:
\* enter the function, updateTimestamp and the loading state, then the three
\* calls inside Promise.all, each running up to its first await
RefreshOps == <<"call", "begin", "stats", "insights", "messages">>

\* a page-load sequence that arms the timer first
LoadOps_ArmFirst == <<"arm">> \o RefreshOps

\* the page-load sequence: refreshAllData(); startAutoRefresh()
LoadOps == RefreshOps \o <<"arm">>

\* a visible branch without startAutoRefresh()
VisibleOps_NoArm == RefreshOps

\* the visible branch: startAutoRefresh(); refreshAllData()
VisibleOps == <<"arm">> \o RefreshOps

\* a fetch function has finished (its promise is resolved or rejected)
Settled(st) == st \in {"settled", "threw"}

\* Promise.race in place of Promise.all: the first settled fetch decides
AllSettled_First(cyc) ==
  Settled(cyc.stats) \/ Settled(cyc.insights) \/ Settled(cyc.messages)

\* Promise.all([...]) of a cycle is fulfilled
AllSettled(cyc) ==
  Settled(cyc.stats) /\ Settled(cyc.insights) /\ Settled(cyc.messages)

NewCycle ==
  [stats |-> "unsent", insights |-> "unsent", messages |-> "unsent",
   began |-> FALSE, done |-> FALSE]

\* a handler run: cyc is the cycle of a settle and the timer of a tick;
\* cycles0 and timers0 are the numbers of refreshAllData and setInterval
\* calls made before the handler started
Ev(op, cyc, kind, outcome, pay) ==
  [op |-> op, cyc |-> cyc, kind |-> kind, outcome |-> outcome, pay |-> pay,
   cycles0 |-> Len(cycles), timers0 |-> nextTimer]

DashInit ==
  /\ page = "new"
  /\ hidden \in BOOLEAN
  /\ hiddenHandled = FALSE
  /\ todo = <<>>
  /\ timers = {}
  /\ autoRefreshInterval = 0
  /\ nextTimer = 0
  /\ btnDisabled = FALSE
  /\ btnLabel = LabelIdle
  /\ lastUpdate = 0
  /\ cycles = <<>>
  /\ timeouts = 0
  /\ dom = [totalMessages |-> TemplateText, uniqueUsers |-> TemplateText,
            questionsCount |-> TemplateText, problemsCount |-> TemplateText,
            trendsCount |-> TemplateText, problemsInsight |-> TemplateText,
            questionsInsight |-> TemplateText,
            trendingInsight |-> TemplateText,
            recentMessages |-> TemplateText]
  /\ lastEv = Ev("none", 0, "none", "none", 0)

\* DOMContentLoaded: the handler starts to run (dashboard.js:1,185-189)
Load ==
  /\ page = "new"
  /\ page' = "live"
  /\ todo' = LoadOps
  /\ lastEv' = Ev("load", 0, "none", "none", 0)
  /\ UNCHANGED <<hidden, hiddenHandled, timers, autoRefreshInterval,
                 nextTimer, btnDisabled, btnLabel, lastUpdate, cycles,
                 timeouts, dom>>
  /\ UNCHANGED chatVars

\* a click listener that re-arms the timer as the visible branch does
ClickRefresh_Rearm(maxCycles) ==
  /\ page = "live" /\ todo = <<>>
  /\ ~btnDisabled /\ ~hidden
  /\ Len(cycles) < maxCycles
  /\ todo' = VisibleOps
  /\ lastEv' = Ev("click", 0, "none", "none", 0)
  /\ UNCHANGED <<page, hidden, hiddenHandled, timers, autoRefreshInterval,
                 nextTimer, btnDisabled, btnLabel, lastUpdate, cycles,
                 timeouts, dom>>
  /\ UNCHANGED chatVars

\* click on the refresh button (a disabled button dispatches no click, a
\* hidden page takes none)
ClickRefresh(maxCycles) ==
  /\ page = "live" /\ todo = <<>>
  /\ ~btnDisabled /\ ~hidden
  /\ Len(cycles) < maxCycles
  /\ todo' = RefreshOps
  /\ lastEv' = Ev("click", 0, "none", "none", 0)
  /\ UNCHANGED <<page, hidden, hiddenHandled, timers, autoRefreshInterval,
                 nextTimer, btnDisabled, btnLabel, lastUpdate, cycles,
                 timeouts, dom>>
  /\ UNCHANGED chatVars

\* an armed interval timer fires: refreshAllData is called
TimerTick(maxCycles) ==
  /\ page = "live" /\ todo = <<>>
  /\ Len(cycles) < maxCycles
  /\ \E t \in timers : lastEv' = Ev("tick", t.id, "none", "none", 0)
  /\ todo' = RefreshOps
  /\ UNCHANGED <<page, hidden, hiddenHandled, timers, autoRefreshInterval,
                 nextTimer, btnDisabled, btnLabel, lastUpdate, cycles,
                 timeouts, dom>>
  /\ UNCHANGED chatVars

\* stopAutoRefresh: the timers left armed by clearInterval(handle)
stopAutoRefresh(armed, handle) ==
  IF handle # 0 THEN {t \in armed : t.id # handle} ELSE armed

\* visibilitychange (dashboard.js:192-199)
VisibilityChange(maxCycles, maxTimers) ==
  /\ page = "live" /\ todo = <<>>
  /\ hidden' = ~hidden
  /\ IF hidden'
       THEN /\ timers' = stopAutoRefresh(timers, autoRefreshInterval)
            /\ hiddenHandled' = TRUE
            /\ todo' = <<>>
            /\ lastEv' = Ev("hidden", 0, "none", "none", 0)
       ELSE /\ Len(cycles) < maxCycles
            /\ nextTimer < maxTimers
            /\ hiddenHandled' = FALSE
            /\ todo' = VisibleOps
            /\ lastEv' = Ev("visible", 0, "none", "none", 0)
            /\ UNCHANGED timers
  /\ UNCHANGED <<page, autoRefreshInterval, nextTimer, btnDisabled,
                 btnLabel, lastUpdate, cycles, timeouts, dom>>
  /\ UNCHANGED chatVars

\* beforeunload (dashboard.js:202); the page is unloaded after it and runs
\* nothing more
BeforeUnload ==
  /\ page = "live" /\ todo = <<>>
  /\ page' = "unloaded"
  /\ timers' = stopAutoRefresh(timers, autoRefreshInterval)
  /\ lastEv' = Ev("beforeunload", 0, "none", "none", 0)
  /\ UNCHANGED <<hidden, hiddenHandled, todo, autoRefreshInterval,
                 nextTimer, btnDisabled, btnLabel, lastUpdate, cycles,
                 timeouts, dom>>
  /\ UNCHANGED chatVars

\* the running handler enters refreshAllData
CallRefresh ==
  /\ todo # <<>> /\ Head(todo) = "call"
  /\ todo' = Tail(todo)
  /\ cycles' = Append(cycles, NewCycle)
  /\ UNCHANGED <<page, hidden, hiddenHandled, timers, autoRefreshInterval,
                 nextTimer, btnDisabled, btnLabel, lastUpdate, timeouts, dom,
                 lastEv>>
  /\ UNCHANGED chatVars

\* refreshAllData without its call of updateTimestamp
BeginRefresh_NoTimestamp ==
  /\ todo # <<>> /\ Head(todo) = "begin"
  /\ todo' = Tail(todo)
  /\ btnDisabled' = TRUE
  /\ btnLabel' = LabelLoading
  /\ cycles' = [cycles EXCEPT ![Len(cycles)].began = TRUE]
  /\ UNCHANGED <<page, hidden, hiddenHandled, timers, autoRefreshInterval,
                 nextTimer, timeouts, dom, lastEv, lastUpdate>>
  /\ UNCHANGED chatVars


\* updateTimestamp and the loading state (dashboard.js:142-146)
BeginRefresh ==
  /\ todo # <<>> /\ Head(todo) = "begin"
  /\ todo' = Tail(todo)
  /\ lastUpdate' = Len(cycles)
  /\ btnDisabled' = TRUE
  /\ btnLabel' = LabelLoading
  /\ cycles' = [cycles EXCEPT ![Len(cycles)].began = TRUE]
  /\ UNCHANGED <<page, hidden, hiddenHandled, timers, autoRefreshInterval,
                 nextTimer, timeouts, dom, lastEv>>
  /\ UNCHANGED chatVars

\* one of the three fetch functions is called and issues its request
IssueFetch ==
  /\ todo # <<>> /\ Head(todo) \in Kinds
  /\ todo' = Tail(todo)
  /\ cycles' = [cycles EXCEPT ![Len(cycles)][Head(todo)] = "sent"]
  /\ UNCHANGED <<page, hidden, hiddenHandled, timers, autoRefreshInterval,
                 nextTimer, btnDisabled, btnLabel, lastUpdate, timeouts, dom,
                 lastEv>>
  /\ UNCHANGED chatVars

\* startAutoRefresh (dashboard.js:173-176)
startAutoRefresh ==
  /\ todo # <<>> /\ Head(todo) = "arm"
  /\ todo' = Tail(todo)
  /\ nextTimer' = nextTimer + 1
  /\ timers' = timers \cup {[id |-> nextTimer', period |-> RefreshPeriod]}
  /\ autoRefreshInterval' = nextTimer'
  /\ UNCHANGED <<page, hidden, hiddenHandled, btnDisabled, btnLabel,
                 lastUpdate, cycles, timeouts, dom, lastEv>>
  /\ UNCHANGED chatVars

\* a settle that renders a response only when it belongs to the newest
\* cycle
FetchSettle_DropStale(outcomes, pays) ==
  /\ page = "live" /\ todo = <<>>
  /\ \E c \in 1..Len(cycles), kind \in Kinds, outcome \in outcomes :
       \E pay \in (IF outcome = "ok" THEN 1..PayloadCount(kind) \cap pays
                   ELSE {0}) :
         LET r == RunFetch(kind, dom, outcome, pay)
             st == IF r.threw THEN "threw" ELSE "settled"
             cyc == [cycles[c] EXCEPT ![kind] = st]
             rejects == ~cyc.done /\ r.threw
             fulfils == ~cyc.done /\ ~r.threw /\ AllSettled(cyc)
         IN  /\ cycles[c][kind] = "sent"
             /\ dom' = IF c = Len(cycles) THEN r.dom ELSE dom
             /\ cycles' = [cycles EXCEPT
                             ![c] = [cyc EXCEPT
                                       !.done = cyc.done \/ rejects \/ fulfils]]
             /\ btnLabel' = IF rejects THEN LabelError
                            ELSE IF fulfils THEN LabelSuccess
                            ELSE btnLabel
             /\ timeouts' = IF rejects \/ fulfils THEN timeouts + 1
                            ELSE timeouts
             /\ lastEv' = Ev("settle", c, kind, outcome, pay)
  /\ UNCHANGED <<page, hidden, hiddenHandled, todo, timers,
                 autoRefreshInterval, nextTimer, btnDisabled, lastUpdate>>
  /\ UNCHANGED chatVars

\* a fetch function that issues its request again when it has failed
FetchSettle_RetryOnFailure(outcomes, pays) ==
  /\ page = "live" /\ todo = <<>>
  /\ \E c \in 1..Len(cycles), kind \in Kinds, outcome \in outcomes :
       \E pay \in (IF outcome = "ok" THEN 1..PayloadCount(kind) \cap pays
                   ELSE {0}) :
         LET r == RunFetch(kind, dom, outcome, pay)
             st == IF outcome # "ok" THEN "sent" ELSE "settled"
             cyc == [cycles[c] EXCEPT ![kind] = st]
             rejects == ~cyc.done /\ r.threw
             fulfils == ~cyc.done /\ ~r.threw /\ AllSettled(cyc)
         IN  /\ cycles[c][kind] = "sent"
             /\ dom' = r.dom
             /\ cycles' = [cycles EXCEPT
                             ![c] = [cyc EXCEPT
                                       !.done = cyc.done \/ rejects \/ fulfils]]
             /\ btnLabel' = IF rejects THEN LabelError
                            ELSE IF fulfils THEN LabelSuccess
                            ELSE btnLabel
             /\ timeouts' = IF rejects \/ fulfils THEN timeouts + 1
                            ELSE timeouts
             /\ lastEv' = Ev("settle", c, kind, outcome, pay)
  /\ UNCHANGED <<page, hidden, hiddenHandled, todo, timers,
                 autoRefreshInterval, nextTimer, btnDisabled, lastUpdate>>
  /\ UNCHANGED chatVars

\* the request of one fetch function settles: the function runs to its end,
\* and refreshAllData goes on when its Promise.all is decided
\* (dashboard.js:148-170)
FetchSettle(outcomes, pays) ==
  /\ page = "live" /\ todo = <<>>
  /\ \E c \in 1..Len(cycles), kind \in Kinds, outcome \in outcomes :
       \E pay \in (IF outcome = "ok" THEN 1..PayloadCount(kind) \cap pays
                   ELSE {0}) :
         LET r == RunFetch(kind, dom, outcome, pay)
             st == IF r.threw THEN "threw" ELSE "settled"
             cyc == [cycles[c] EXCEPT ![kind] = st]
             rejects == ~cyc.done /\ r.threw
             fulfils == ~cyc.done /\ ~r.threw /\ AllSettled(cyc)
         IN  /\ cycles[c][kind] = "sent"
             /\ dom' = r.dom
             /\ cycles' = [cycles EXCEPT
                             ![c] = [cyc EXCEPT
                                       !.done = cyc.done \/ rejects \/ fulfils]]
             /\ btnLabel' = IF rejects THEN LabelError
                            ELSE IF fulfils THEN LabelSuccess
                            ELSE btnLabel
             /\ timeouts' = IF rejects \/ fulfils THEN timeouts + 1
                            ELSE timeouts
             /\ lastEv' = Ev("settle", c, kind, outcome, pay)
  /\ UNCHANGED <<page, hidden, hiddenHandled, todo, timers,
                 autoRefreshInterval, nextTimer, btnDisabled, lastUpdate>>
  /\ UNCHANGED chatVars

\* the reset callback without refreshBtn.disabled = false
ResetTimeout_LabelOnly ==
  /\ page = "live" /\ todo = <<>>
  /\ timeouts > 0
  /\ timeouts' = timeouts - 1
  /\ btnLabel' = LabelIdle
  /\ lastEv' = Ev("reset", 0, "none", "none", 0)
  /\ UNCHANGED <<page, hidden, hiddenHandled, todo, timers,
                 autoRefreshInterval, nextTimer, lastUpdate, cycles, dom,
                 btnDisabled>>
  /\ UNCHANGED chatVars

\* a reset timeout fires (dashboard.js:158-161,166-169)
ResetTimeout ==
  /\ page = "live" /\ todo = <<>>
  /\ timeouts > 0
  /\ timeouts' = timeouts - 1
  /\ btnLabel' = LabelIdle
  /\ btnDisabled' = FALSE
  /\ lastEv' = Ev("reset", 0, "none", "none", 0)
  /\ UNCHANGED <<page, hidden, hiddenHandled, todo, timers,
                 autoRefreshInterval, nextTimer, lastUpdate, cycles, dom>>
  /\ UNCHANGED chatVars

\* the steps of a running handler
HandlerStep ==
  \/ CallRefresh
  \/ BeginRefresh
  \/ IssueFetch
  \/ startAutoRefresh

\* every event of the page; every request succeeds
DashNext ==
  \/ Load
  \/ ClickRefresh(MaxCycles)
  \/ TimerTick(MaxCycles)
  \/ VisibilityChange(MaxCycles, MaxTimers)
  \/ BeforeUnload
  \/ CallRefresh
  \/ BeginRefresh
  \/ IssueFetch
  \/ startAutoRefresh
  \/ FetchSettle({"ok"}, {1})
  \/ ResetTimeout

\* the same with one more cycle
DeepNext ==
  \/ Load
  \/ ClickRefresh(DeepCycles)
  \/ TimerTick(DeepCycles)
  \/ VisibilityChange(DeepCycles, DeepTimers)
  \/ BeforeUnload
  \/ CallRefresh
  \/ BeginRefresh
  \/ IssueFetch
  \/ startAutoRefresh
  \/ FetchSettle({"ok"}, {1})
  \/ ResetTimeout

\* a page that is left open and visible: clicks, timer ticks, and requests
\* that succeed or fail
OpenNext ==
  \/ Load
  \/ ClickRefresh(OpenCycles)
  \/ TimerTick(OpenCycles)
  \/ CallRefresh
  \/ BeginRefresh
  \/ IssueFetch
  \/ startAutoRefresh
  \/ FetchSettle({"ok", "network"}, {1})
  \/ ResetTimeout

\* a page within one timer period of its load: every outcome and every
\* payload
RenderNext ==
  \/ Load
  \/ ClickRefresh(RenderCycles)
  \/ CallRefresh
  \/ BeginRefresh
  \/ IssueFetch
  \/ startAutoRefresh
  \/ FetchSettle(FetchOutcomes, {1, 2})
  \/ ResetTimeout

\* a browser session is on the chat page or on the dashboard: the handlers
\* of one page run only while the other page has run none
SiteNext ==
  \/ page = "new" /\ TypeInput
  \/ page = "new" /\ ClickSend
  \/ page = "new" /\ PressEnter
  \/ page = "new" /\ ClickQuery
  \/ page = "new" /\ QuerySettle
  \/ lastAct.op = "load" /\ Load
  \/ lastAct.op = "load" /\ ClickRefresh(OpenCycles)
  \/ lastAct.op = "load" /\ TimerTick(OpenCycles)
  \/ lastAct.op = "load" /\ CallRefresh
  \/ lastAct.op = "load" /\ BeginRefresh
  \/ lastAct.op = "load" /\ IssueFetch
  \/ lastAct.op = "load" /\ startAutoRefresh
  \/ lastAct.op = "load" /\ FetchSettle({"ok", "network"}, {1})
  \/ lastAct.op = "load" /\ ResetTimeout

\* the responses drawn when the renderings are examined
FormatPays == {1, 2, 3, 4, 5, 6}

\* the load cycle of a visible page, every request answered with one of the
\* well-formed responses
FormatNext ==
  \/ Load
  \/ CallRefresh
  \/ BeginRefresh
  \/ IssueFetch
  \/ startAutoRefresh
  \/ FetchSettle({"ok"}, FormatPays)
  \/ ResetTimeout

Init == ChatInit /\ DashInit

ChatSpec == Init /\ [][ChatNext]_vars

DashSpec == Init /\ [][DashNext]_vars

DeepSpec == Init /\ [][DeepNext]_vars

\* the page is loaded in the foreground
VisibleInit == Init /\ ~hidden

OpenSpec == VisibleInit /\ [][OpenNext]_vars

RenderSpec == VisibleInit /\ [][RenderNext]_vars

SiteSpec == VisibleInit /\ [][SiteNext]_vars

FormatSpec == VisibleInit /\ [][FormatNext]_vars

\* the event loop runs every handler to its end, every request settles and
\* every timeout fires
LiveSpec ==
  /\ OpenSpec
  /\ WF_vars(HandlerStep)
  /\ WF_vars(FetchSettle({"ok", "network"}, {1}))
  /\ WF_vars(ResetTimeout)

(***************************************************************************)
(* Chat page: properties                                                   *)
(***************************************************************************)
IsBlank(s) == \A i \in 1..Len(s) : s[i] = " "

IsPrefix(s, t) == Len(s) <= Len(t) /\ SubSeq(t, 1, Len(s)) = s

IsTurn(node) == node.cls # "loading"

\* the user and assistant turns of the chat window, pending turns left out
Turns(win) == SelectSeq(win, IsTurn)

Positions(win, cls, sub) ==
  {i \in 1..Len(win) : win[i].cls = cls /\ win[i].sub = sub}

\* C1: at most one POST /api/query request is in flight at any time.
C1_AtMostOneQueryInFlight == Cardinality(queries) <= 1

\* C2: chat turns are never interleaved: between the user turn of one
\* submission and the user turn of any later submission stands the
\* assistant turn of the first.
C2_TurnsNeverInterleaved ==
  \A i, j \in 1..Len(chatWindow) :
    (i < j /\ chatWindow[i].cls = "user" /\ chatWindow[j].cls = "user")
      => \E k \in (i + 1)..(j - 1) :
           chatWindow[k].cls = "bot" /\ chatWindow[k].sub = chatWindow[i].sub

\* C3: a send-button click or Enter press on input that is empty after
\* trimming changes nothing: no turn is appended, no request is issued, the
\* controls keep their disabled state and the input keeps its value.
C3_BlankSubmitIsNoOp ==
  [][(lastAct'.op \in {"click", "enter"} /\ IsBlank(inputValue))
       => UNCHANGED <<chatWindow, queries, inputDisabled, sendDisabled,
                      inputValue, nextSub>>]_vars

\* C3 witness: a click on send was handled with a white-space-only input and
\* was rejected.
C3_Witness ==
  /\ lastAct.op = "click"
  /\ lastAct.sub = 0
  /\ inputValue = <<" ", " ">>

\* C4: when the request of a submission settles, exactly one assistant turn
\* of that submission is in the window, the pending turn of that submission
\* is gone, and the input and the send button are enabled.
C4_SettledSubmissionResolved ==
  [][\A q \in queries \ queries' :
       /\ Cardinality(Positions(chatWindow', "bot", q.sub)) = 1
       /\ Positions(chatWindow', "loading", q.sub) = {}
       /\ ~inputDisabled'
       /\ ~sendDisabled']_vars

\* C5: a query that fails by a network error, a non-2xx status or a
\* malformed body appends exactly one assistant turn, which holds the fixed
\* apologetic message (never the "Error: ..." text of handleSend's own catch).
C5_FailureShowsApology ==
  [][(lastAct'.op = "settle" /\ lastAct'.outcome \in QueryFailures)
       => /\ Len(Turns(chatWindow')) = Len(Turns(chatWindow)) + 1
          /\ chatWindow'[Len(chatWindow')].cls = "bot"
          /\ chatWindow'[Len(chatWindow')].text = Apology]_vars

\* C5 witness: a query with a malformed body has settled and the apology is
\* the last turn.
C5_Witness ==
  /\ lastAct.op = "settle"
  /\ lastAct.outcome = "parse"
  /\ chatWindow # <<>>
  /\ chatWindow[Len(chatWindow)].text = Apology

\* C6: the sequence of user and assistant turns only grows: every step
\* leaves the earlier turns in place, in order; only pending turns go.
C6_TranscriptAppendOnly ==
  [][IsPrefix(Turns(chatWindow), Turns(chatWindow'))]_vars

\* C6 witness: a settle removed a pending turn from the middle of the
\* window while another pending turn is still shown.
C6_Witness ==
  /\ lastAct.op = "settle"
  /\ Len(Turns(chatWindow)) = 3
  /\ \E i \in 1..Len(chatWindow) : chatWindow[i].cls = "loading"


(***************************************************************************)
(* Dashboard: properties                                                   *)
(***************************************************************************)
\* C7: whenever the refresh button shows the loading label, it later shows
\* the success or the error label, and after that the idle label with the
\* button enabled.
C7_LoadingEnds ==
  [](btnLabel = LabelLoading
       => <>(/\ btnLabel \in {LabelSuccess, LabelError}
             /\ <>(btnLabel = LabelIdle /\ ~btnDisabled)))

\* C7 witness: two cycles overlap, one of their requests has failed, and
\* the button shows the loading label.
C7_Witness ==
  /\ btnLabel = LabelLoading
  /\ Len(cycles) = 2
  /\ ~cycles[1].done /\ ~cycles[2].done
  /\ lastEv.op = "settle" /\ lastEv.outcome \in FetchFailures

\* a fetch function of the cycle has run to its end
Finished(cy) == \A k \in Kinds : cy[k] \in {"settled", "threw"}

\* C8: in every cycle the button is set to loading (and disabled) before a
\* request is issued, all three requests are issued before any of them
\* settles, and the cycle is done only when all three have settled.
C8_CycleStepsOrdered ==
  [][/\ \A c \in 1..Len(cycles), k \in Kinds :
          (cycles[c][k] = "unsent" /\ cycles'[c][k] = "sent")
            => (cycles[c].began /\ btnDisabled /\ btnLabel = LabelLoading)
     /\ \A c \in 1..Len(cycles') :
          /\ (\E k \in Kinds : cycles'[c][k] \in {"settled", "threw"})
               => \A k \in Kinds : cycles'[c][k] # "unsent"
          /\ cycles'[c].done => Finished(cycles'[c])]_vars

\* C8 witness: the first cycle is done while the second, started before the
\* first was done, has one fetch settled and the others in flight.
C8_Witness ==
  /\ Len(cycles) = 2
  /\ cycles[1].done
  /\ ~cycles[2].done
  /\ cycles[2].stats = "settled"
  /\ cycles[2].insights = "sent"
  /\ cycles[2].messages = "sent"

\* C9: when a fetch settles, a failed insights fetch leaves the error
\* placeholder in the three insight panels, a failed messages fetch leaves
\* its placeholder in the messages region, a successful fetch leaves the
\* rendering of its payload in its region, and no promise is rejected: the
\* cycle never takes its error branch.
C9_FailuresAreLocal ==
  [][\A c \in 1..Len(cycles), k \in Kinds :
       (cycles[c][k] = "sent" /\ cycles'[c][k] # "sent"
          /\ lastEv'.kind = k /\ lastEv'.cyc = c)
       => /\ cycles'[c][k] = "settled"
          /\ btnLabel' # LabelError
          /\ (k = "insights" /\ lastEv'.outcome # "ok")
               => /\ dom'.problemsInsight = ErrorLoadingInsights
                  /\ dom'.questionsInsight = ErrorLoadingInsights
                  /\ dom'.trendingInsight = ErrorLoadingInsights
                  /\ dom'.recentMessages = dom.recentMessages
                  /\ dom'.totalMessages = dom.totalMessages
          /\ (k = "messages" /\ lastEv'.outcome # "ok")
               => /\ dom'.recentMessages = ErrorLoadingMessages
                  /\ dom'.problemsInsight = dom.problemsInsight
                  /\ dom'.totalMessages = dom.totalMessages
          /\ (k = "insights" /\ lastEv'.outcome = "ok")
               => /\ dom'.problemsInsight
                       = InsightsView[lastEv'.pay].problemsInsight
                  /\ dom'.questionsInsight
                       = InsightsView[lastEv'.pay].questionsInsight
                  /\ dom'.trendingInsight
                       = InsightsView[lastEv'.pay].trendingInsight
          /\ (k = "messages" /\ lastEv'.outcome = "ok")
               => dom'.recentMessages = MessagesView[lastEv'.pay]
          /\ (k = "stats" /\ lastEv'.outcome = "ok")
               => dom'.totalMessages = StatsView[lastEv'.pay].totalMessages]_vars

\* C9 witness: a cycle is done in which the insights fetch failed and the
\* stats and messages fetches succeeded: the placeholder stands next to the
\* rendered stats and messages.
C9_Witness ==
  /\ Len(cycles) = 1
  /\ cycles[1].done
  /\ dom.problemsInsight = ErrorLoadingInsights
  /\ dom.recentMessages = MessagesView[2]
  /\ dom.totalMessages = StatsView[1].totalMessages
  /\ btnLabel = LabelSuccess

\* C10: once a visibilitychange to hidden is handled, the timer the handle
\* refers to is not armed and no refresh cycle starts until a
\* visibilitychange to visible is handled.
C10_NoCycleWhileHidden ==
  [][/\ hiddenHandled' => \A t \in timers' : t.id # autoRefreshInterval'
     /\ (hiddenHandled /\ hiddenHandled') => Len(cycles') = Len(cycles)]_vars

\* a cycle whose three requests have all been issued
Issued(cy) == \A k \in Kinds : cy[k] # "unsent"

\* C11: on page load one cycle starts at once and the timer, of period 30,
\* is armed only after the three requests of that cycle are issued: when the
\* load handler ends there is one cycle and one timer, and whenever a timer
\* has been armed (so before any tick) the first cycle's requests are out.
C11_LoadCycleBeforeTimer ==
  /\ \A t \in timers : t.period = 30
  /\ nextTimer >= 1 => (Len(cycles) >= 1 /\ Issued(cycles[1]))
  /\ lastEv.op = "tick" => (Len(cycles) >= 1 /\ Issued(cycles[1]))
  /\ (lastEv.op = "load" /\ todo = <<>>)
       => /\ Len(cycles) = 1
          /\ Cardinality(timers) = 1
          /\ \A t \in timers : t.id = autoRefreshInterval

\* C11 witness: the load handler has ended with the first cycle's requests
\* in flight and the timer armed.
C11_Witness ==
  /\ lastEv.op = "load" /\ todo = <<>>
  /\ timers # {}
  /\ Len(cycles) = 1
  /\ cycles[1].stats = "sent" /\ cycles[1].messages = "sent"

\* C12: when the handler of a visibilitychange to visible ends, exactly one
\* cycle more than before has been started, with its requests issued, and
\* exactly one timer more than before has been armed, which the handle
\* refers to.
C12_VisibleRestarts ==
  (lastEv.op = "visible" /\ todo = <<>>)
    => /\ Len(cycles) = lastEv.cycles0 + 1
       /\ Issued(cycles[Len(cycles)])
       /\ nextTimer = lastEv.timers0 + 1
       /\ autoRefreshInterval = nextTimer
       /\ \E t \in timers : t.id = nextTimer

\* C12 witness: the page was loaded, hidden (timer cleared) and shown again;
\* the handler of the second change has ended.
C12_Witness ==
  /\ lastEv.op = "visible" /\ todo = <<>>
  /\ lastEv.timers0 = 1
  /\ timers = {[id |-> 2, period |-> RefreshPeriod]}
  /\ Len(cycles) = 2

\* C13: the handler of a click on the refresh button neither arms nor clears
\* a timer and leaves the handle alone, and when it ends exactly one cycle
\* more than before has been started, with its requests issued.
C13_ClickLeavesTimer ==
  [][lastEv'.op = "click"
       => /\ UNCHANGED <<timers, autoRefreshInterval, nextTimer>>
          /\ todo' = <<>>
               => /\ Len(cycles') = lastEv'.cycles0 + 1
                  /\ Issued(cycles'[Len(cycles')])]_vars

\* C13 witness: a click was handled while a timer is armed; its cycle is the
\* second one.
C13_Witness ==
  /\ lastEv.op = "click" /\ todo = <<>>
  /\ timers # {}
  /\ Len(cycles) = 2
  /\ cycles[2].insights = "sent"

\* C14: once the beforeunload handler has run no interval timer is armed.
C14_NoTimerAfterUnload == page = "unloaded" => timers = {}

\* what a settled response leaves in the regions only its fetch writes
Rendered(d, kind, outcome, pay) ==
  CASE kind = "stats" ->
         /\ d.totalMessages
              = (IF outcome = "ok" THEN StatsView[pay].totalMessages
                 ELSE ErrorText)
         /\ d.uniqueUsers
              = (IF outcome = "ok" THEN StatsView[pay].uniqueUsers
                 ELSE ErrorText)
    [] kind = "insights" ->
         /\ d.problemsInsight
              = (IF outcome = "ok" THEN InsightsView[pay].problemsInsight
                 ELSE ErrorLoadingInsights)
         /\ d.questionsInsight
              = (IF outcome = "ok" THEN InsightsView[pay].questionsInsight
                 ELSE ErrorLoadingInsights)
         /\ d.trendingInsight
              = (IF outcome = "ok" THEN InsightsView[pay].trendingInsight
                 ELSE ErrorLoadingInsights)
    [] kind = "messages" ->
         d.recentMessages
           = (IF outcome = "ok" THEN MessagesView[pay]
              ELSE ErrorLoadingMessages)

StatCards == {"totalMessages", "uniqueUsers", "questionsCount", "problemsCount"}
InsightPanels == {"problemsInsight", "questionsInsight", "trendingInsight"}
InsightBadges == {"problemsCount", "questionsCount", "trendsCount"}

Region(kind) ==
  CASE kind = "stats"    -> StatCards
    [] kind = "insights" -> InsightPanels \cup InsightBadges
    [] kind = "messages" -> {"recentMessages"}

\* C16: a fetch that settles changes only elements of its own region, and
\* none that belongs to the region of another fetch: no element is written
\* by two different fetches.
C16_FetchesWriteDisjointRegions ==
  [][lastEv'.op = "settle"
       => \A e \in DOMAIN dom :
            dom'[e] # dom[e]
              => /\ e \in Region(lastEv'.kind)
                 /\ \A j \in Kinds \ {lastEv'.kind} : e \notin Region(j)]_vars

\* the newest cycle is done and nothing else is in flight
LastCycleDone ==
  /\ cycles # <<>>
  /\ \A c \in 1..Len(cycles) : cycles[c].done /\ Finished(cycles[c])

\* C17: when a cycle has completed whose stats response was well formed,
\* each of the four stat fields shows the response's field, or 0 for an
\* absent or null field.
C17_StatsShownAfterCycle ==
  LastCycleDone
    => \A pay \in 1..Len(StatsPayloads) :
         (/\ dom.totalMessages = Num(OrZero(StatsPayloads[pay].total_messages))
          /\ dom.uniqueUsers = Num(OrZero(StatsPayloads[pay].unique_users)))
         => /\ dom.questionsCount
                 = Num(OrZero(StatsPayloads[pay].questions_count))
            /\ dom.problemsCount
                 = Num(OrZero(StatsPayloads[pay].problems_count))

\* C18: when a cycle has completed whose stats fetch failed, all four stat
\* fields show "Error".
C18_StatsErrorAfterCycle ==
  (LastCycleDone /\ dom.totalMessages = ErrorText)
    => /\ dom.uniqueUsers = ErrorText
       /\ dom.questionsCount = ErrorText
       /\ dom.problemsCount = ErrorText

\* C19: when the stats fetch and the insights fetch of a cycle have both
\* succeeded, the problemsCount and questionsCount badges show the counts
\* derived from the insights text shown, whichever fetch completed last.
C19_BadgesShowTextCounts ==
  (/\ cycles # <<>>
   /\ cycles[Len(cycles)].stats = "settled"
   /\ cycles[Len(cycles)].insights = "settled"
   /\ dom.totalMessages # ErrorText
   /\ dom.problemsInsight # ErrorLoadingInsights)
    => /\ dom.problemsCount = Num(countEnumerations(dom.problemsInsight))
       /\ dom.questionsCount = Num(countBullets(dom.questionsInsight))

\* C20: nothing is retried.  An accepted chat submission issues one query
\* and no other step issues one; a handler that starts a cycle issues each
\* of the cycle's three requests once; a request that has been issued is
\* never issued again; and the settling of a request, failed or not, issues
\* no request and starts no cycle: cycles start only on the load, a click,
\* a timer tick or a visibility change.
C20_NoRetry ==
  [][/\ Cardinality(queries' \ queries) = (IF nextSub' # nextSub THEN 1 ELSE 0)
     /\ \A q \in queries' \ queries : q.sub = nextSub' /\ nextSub' = nextSub + 1
     /\ lastAct'.op = "settle" => queries' \subseteq queries
     /\ (todo # <<>> /\ todo' = <<>>) => Issued(cycles'[Len(cycles')])
     /\ \A c \in 1..Len(cycles), k \in Kinds :
          /\ cycles[c][k] # "unsent" => cycles'[c][k] # "unsent"
          /\ Settled(cycles[c][k]) => cycles'[c][k] = cycles[c][k]
     /\ lastEv'.op = "settle"
          => /\ Settled(cycles'[lastEv'.cyc][lastEv'.kind])
             /\ Len(cycles') = Len(cycles)
             /\ todo' = <<>>
             /\ \A c \in 1..Len(cycles), k \in Kinds :
                  cycles'[c][k] = "sent" => cycles[c][k] = "sent"
     /\ Len(cycles') > Len(cycles)
          => lastEv'.op \in {"load", "click", "tick", "visible"}]_vars

\* C20 witness: the three requests of the load cycle have failed, the cycle
\* is done, and nothing has been issued since.
C20_Witness ==
  /\ lastEv.op = "settle" /\ lastEv.outcome = "network"
  /\ Len(cycles) = 1
  /\ cycles[1].done
  /\ dom.totalMessages = ErrorText
  /\ dom.problemsInsight = ErrorLoadingInsights
  /\ dom.recentMessages = ErrorLoadingMessages

(***************************************************************************)
(* The renderings of the messages and of the insights, examined on the     *)
(* load cycle of FormatSpec.                                               *)
(***************************************************************************)
\* the tags the formatter inserts (dashboard.js:100, 107, 114, 118)
Markup == {BadgeOpen, DangerOpen, InfoOpen, SpanClose}

\* the first place x stands at in s, 0 if it does not
RECURSIVE IndexFrom(_, _, _)
IndexFrom(s, x, i) ==
  IF i > Len(s) THEN 0
  ELSE IF s[i] = x THEN i
  ELSE IndexFrom(s, x, i + 1)

\* the text shown in the paragraph of the first message of a rendering
ShownText(html) ==
  LET open == IndexFrom(html, "<p class=\"mb-1\">", 1)
      close == IndexFrom(html, "</p>", open + 1)
  IN  SubSeq(html, open + 1, close - 1)

\* the messages region holds the rendering of a message
MessageShown ==
  dom.recentMessages
    \notin {TemplateText, NoRecentMessages, ErrorLoadingMessages}

\* the text of the message that was rendered last
MessageText == MessagesPayloads[lastEv.pay].messages[1].text

\* a well-formed response with a message has just been rendered
MessageRendered ==
  /\ lastEv.op = "settle" /\ lastEv.kind = "messages"
  /\ lastEv.outcome = "ok"
  /\ MessagesPayloads[lastEv.pay].messages # <<>>

\* the characters of s that are not tags
Visible(s) == SelectSeq(s, LAMBDA x : x \notin Markup)

\* C21: the first character a rendered message shows, the tags inserted
\* before it left aside, is upper-cased: no message is shown with a
\* lower-case first letter.
C21_FirstVisibleUpper ==
  MessageShown
    => LET shown == Visible(ShownText(dom.recentMessages))
       IN  shown # <<>> => Head(shown) \notin LowerLetters

\* how many of the inserted spans are open after the first i elements of s
RECURSIVE OpenSpans(_, _)
OpenSpans(s, i) ==
  IF i = 0 THEN 0
  ELSE OpenSpans(s, i - 1)
         + (IF s[i] \in Markup \ {SpanClose} THEN 1
            ELSE IF s[i] = SpanClose THEN -1 ELSE 0)

\* C22: in a rendered message no wrapper stands inside another: a later
\* pass has matched nothing inside the markup or the text an earlier pass
\* (the mention masking included) has inserted or wrapped.
C22_NoNestedWrappers ==
  MessageShown
    => LET shown == ShownText(dom.recentMessages)
       IN  \A i \in 1..Len(shown) : OpenSpans(shown, i) <= 1

\* a well-formed insights response has just been rendered
InsightsRendered ==
  /\ lastEv.op = "settle" /\ lastEv.kind = "insights"
  /\ lastEv.outcome = "ok"

\* the text of the response that was rendered last into a panel
\* (dashboard.js:44-46)
InsightText(panel) ==
  LET insights == InsightsPayloads[lastEv.pay]
  IN  CASE panel = "problemsInsight" ->
             OrDefault(insights.problems, NoProblems)
        [] panel = "questionsInsight" ->
             OrDefault(insights.questions, NoQuestions)
        [] panel = "trendingInsight" ->
             OrDefault(insights.trending, NoTrending)

\* a ** stands at i
DelimiterAt(s, i) == i >= 1 /\ i < Len(s) /\ s[i] = "*" /\ s[i + 1] = "*"

\* s holds an opening ** and a closing ** after it
HasPair(s) ==
  \E i \in 1..Len(s), j \in 1..Len(s) :
    j >= i + 2 /\ DelimiterAt(s, i) /\ DelimiterAt(s, j)

\* C23: a rendered insights text holds no paired ** any more (every paired
\* span was replaced with emphasis markup), and a text without a paired **
\* is rendered as it came.
C23_PairedSpansEmphasized ==
  InsightsRendered
    => \A panel \in InsightPanels :
         /\ ~HasPair(dom[panel])
         /\ ~HasPair(InsightText(panel)) => dom[panel] = InsightText(panel)

\* the elements of a set of numbers in ascending order
RECURSIVE Ascending(_)
Ascending(S) ==
  IF S = {} THEN <<>>
  ELSE LET m == Min(S) IN <<m>> \o Ascending(S \ {m})

\* the identifiers of the mention tokens of s, from left to right
MentionIds(s) ==
  LET at == Ascending({i \in 1..Len(s) : MentionAt(s, i)})
  IN  [k \in 1..Len(at) |-> SubSeq(s, at[k] + 2, IdEnd(s, at[k] + 2))]

\* the last four characters of an identifier (all of it when it is shorter)
Suffix4(id) == SubSeq(id, IF Len(id) > 4 THEN Len(id) - 3 ELSE 1, Len(id))

\* the characters shown in the badges of s, from left to right
BadgeTexts(s) ==
  LET at == Ascending({i \in 1..Len(s) : s[i] = BadgeOpen})
      close(b) == Min({j \in (b + 1)..Len(s) :
                         OpenSpans(s, j) = OpenSpans(s, b) - 1})
  IN  [k \in 1..Len(at) |->
         Visible(SubSeq(s, at[k] + 1, close(at[k]) - 1))]

C25_BadgesCountMarkers ==
  InsightsRendered
    => /\ dom.problemsCount = Num(countEnumerations(dom.problemsInsight))
       /\ dom.questionsCount = Num(countBullets(dom.questionsInsight))
       /\ dom.trendsCount = Num(countHeaders(dom.trendingInsight))

\* C25 witness: the insights of a second cycle have been rendered with
\* texts that hold no marker, and the three badges show 0.
C25_Witness ==
  /\ InsightsRendered
  /\ lastEv.cyc = 2
  /\ cycles[1].insights = "settled"
  /\ dom.problemsInsight = NoProblems
  /\ dom.problemsCount = Num(0)
  /\ dom.questionsCount = Num(0)
  /\ dom.trendsCount = Num(0)

\* C26: while a chat query is in flight the input and the send button are
\* both disabled; they are enabled only when no query is in flight.
C26_ControlsDisabledInFlight ==
  queries # {} => inputDisabled /\ sendDisabled

\* a request of the cycle is in flight
InFlight(cy) == \E k \in Kinds : cy[k] = "sent"

\* C27: while a refresh cycle has requests in flight the refresh button is
\* disabled and does not show the idle label: the delayed reset of an
\* earlier cycle never enables it while a later cycle is still loading.
C27_ButtonBusyInFlight ==
  (\E c \in 1..Len(cycles) : InFlight(cycles[c]))
    => btnDisabled /\ btnLabel # LabelIdle

\* C28: at most one auto-refresh timer is armed, and an armed timer is the
\* one the handle refers to, whatever loads, visibility changes and unloads
\* have happened.
C28_OneTimerByHandle ==
  /\ Cardinality(timers) <= 1
  /\ \A t \in timers : t.id = autoRefreshInterval

\* C29: the refresh button never shows the error label: no fetch function
\* rejects its promise, so every cycle that completes sets the button to
\* the success label, also when its three requests have all failed.
C29_ErrorLabelUnreachable ==
  /\ [](btnLabel # LabelError)
  /\ [][\A c \in 1..Len(cycles) :
          (~cycles[c].done /\ cycles'[c].done)
            => /\ btnLabel' = LabelSuccess
               /\ \A k \in Kinds : cycles'[c][k] = "settled"]_vars

\* C29 witness: the three requests of a cycle have failed, the last of them
\* just now, the cycle is done and the button shows the success label.
C29_Witness ==
  /\ lastEv.op = "settle" /\ lastEv.outcome \in FetchFailures
  /\ cycles[lastEv.cyc].done
  /\ dom.totalMessages = ErrorText
  /\ dom.problemsInsight = ErrorLoadingInsights
  /\ dom.recentMessages = ErrorLoadingMessages
  /\ btnLabel = LabelSuccess

\* the places of the chat window where a "Thinking..." element stands
Pending == {i \in 1..Len(chatWindow) : chatWindow[i].id = "loading-indicator"}

\* C30: there are as many pending ("Thinking...") turns in the chat window
\* as there are chat queries in flight.
C30_PendingTurnsMatchQueries ==
  Cardinality(Pending) = Cardinality(queries)

\* C30 witness: of two queries in flight one has settled: one query is in
\* flight and one pending turn is left.
C30_Witness ==
  /\ lastAct.op = "settle"
  /\ Cardinality(queries) = 1
  /\ Cardinality(Pending) = 1

\* C31: every refresh cycle writes the last-updated timestamp once, when it
\* begins and before any of its requests is issued; the timestamp is written
\* whether the requests later succeed or fail, and no later step of the
\* cycle (a request issued, a response or failure arriving, the reset of
\* the button) writes it.
C31_TimestampOncePerCycle ==
  [][/\ \A c \in 1..Len(cycles') :
          (c > Len(cycles) \/ ~cycles[c].began) /\ cycles'[c].began
            => /\ lastUpdate' = c
               /\ lastUpdate # c
               /\ \A k \in Kinds : cycles'[c][k] = "unsent"
     /\ lastUpdate' # lastUpdate
          => /\ lastUpdate' = Len(cycles)
             /\ ~cycles[Len(cycles)].began /\ cycles'[Len(cycles)].began
     /\ \A c \in 1..Len(cycles'), k \in Kinds :
          cycles'[c][k] # "unsent" => lastUpdate' >= c
     /\ lastEv'.op \in {"settle", "reset"} => lastUpdate' = lastUpdate]_vars

\* C31 witness: the requests of the second cycle have failed and the cycle
\* is done; the timestamp is the one the cycle wrote when it began.
C31_Witness ==
  /\ lastEv.op = "settle" /\ lastEv.outcome \in FetchFailures
  /\ lastEv.cyc = 2
  /\ cycles[2].done
  /\ \A k \in Kinds : cycles[2][k] = "settled"
  /\ dom.totalMessages = ErrorText
  /\ lastUpdate = 2

\* C32: an insights fetch that fails writes the error text to the three
\* insight panels and changes nothing else: the problemsCount,
\* questionsCount and trendsCount badges keep the value they had, so a badge
\* may show the count of an earlier render next to the error text.
C32_FailedInsightsKeepBadges ==
  [][(/\ lastEv'.op = "settle" /\ lastEv'.kind = "insights"
      /\ lastEv'.outcome # "ok")
       => /\ \A e \in InsightPanels : dom'[e] = ErrorLoadingInsights
          /\ \A e \in DOMAIN dom \ InsightPanels : dom'[e] = dom[e]]_vars

\* C32 witness: the insights fetch of the second cycle has just failed; the
\* panels show the error text and the trends badge still shows the count of
\* the first cycle's render.
C32_Witness ==
  /\ lastEv.op = "settle" /\ lastEv.kind = "insights"
  /\ lastEv.outcome \in FetchFailures
  /\ lastEv.cyc = 2
  /\ dom.trendingInsight = ErrorLoadingInsights
  /\ dom.trendsCount = Num(1)

====
